---- MODULE Spec2Model ----
(***************************************************************************)
(* Model of src/main.py: extract_object_counts, digitize and the part of   *)
(* process_pdf that calls them.                                            *)
(*                                                                         *)
(* A page text is a sequence of lines and a line is a sequence of tokens   *)
(* (the maximal runs of non-blank characters, except where a regular       *)
(* expression's fixed phrase is a token of its own).  The Cyrillic words   *)
(* of the source are transliterated, the strings of a module being ASCII:  *)
(*   Specifikaciya elementov = "Спецификация элементов"                    *)
(*   Kolonna, Balka, Plita, Stena, Steny monolitnye                        *)
(*   Izdelie zakladnoe = "Изделие закладное",  ZD-1 = "ЗД-1"               *)
(*   Prutok = "Пруток",  GOST = "ГОСТ",  Km-1 = "Км-1",  Bm-2 = "Бм-2"     *)
(***************************************************************************)
EXTENDS Integers, Sequences, FiniteSets, TLC

VARIABLES
    pc,               \* position in process_pdf / digitize
    page0,            \* pdf.pages[0]: missing, without text, or its text
    object_counts,    \* the result of extract_object_counts (wrapped: <<>> before it returns)
    current_element,  \* digitize: current_element ("None" for None)
    embedded_qty,     \* digitize: embedded_qty
    in_embedded,      \* digitize: in_embedded
    rows,             \* digitize: rows, in insertion order
    page_index,       \* digitize: page_index of the page being (or last) read
    line,             \* digitize: the line the loop body last ran on
    result_rows,      \* digitize: result_rows (wrapped: <<>> before digitize returns)
    line_no,          \* digitize: how many lines of the current page the loop has read
    nlines,           \* number of lines read so far, over all pages (bounds the scan)
    suspended         \* the locals of a second call of process_pdf while the first runs

vars == <<pc, page0, object_counts, current_element, embedded_qty, in_embedded,
          rows, page_index, line, result_rows, line_no, nlines, suspended>>

\* Bounds of the model.
MaxLines == 5
MaxPages == 2

----------------------------------------------------------------------------
(* Tokens *)

Tok(k, s, a, b) == [k |-> k, s |-> s, a |-> a, b |-> b]
W(s) == Tok("word", s, <<>>, <<>>)
\* an element code, e.g. "Км-1"; a and b unused
Code(s) == Tok("code", s, <<>>, <<>>)
\* an embedded-item code "ЗД-<digits>"
Zd(s) == Tok("zd", s, <<>>, <<>>)
\* a run of decimal digits
Num(ds) == Tok("num", "", ds, <<>>)
\* <sign><diameter>x<length>, sign being "" or "O" (for Ø / ∅)
Size(sign, d, l) == Tok("size", sign, d, l)
\* a steel grade suffix "-A500С"
Grade(s) == Tok("grade", s, <<>>, <<>>)
\* "ГОСТ <digits>-<digits>"
Gost(s) == Tok("gost", s, <<>>, <<>>)
\* additional blanks of a whitespace-only line
WS == Tok("ws", " ", <<>>, <<>>)

\* int(...) of a run of decimal digits
RECURSIVE PyInt(_)
PyInt(ds) ==
    IF ds = <<>> THEN 0
    ELSE 10 * PyInt(SubSeq(ds, 1, Len(ds) - 1)) + ds[Len(ds)]

\* The digits a token starts with (what \d+ matches right after \s+).
LeadDigits(t) ==
    IF t.k = "num" THEN t.a
    ELSE IF t.k = "size" /\ t.s = "" THEN t.a
    ELSE <<>>

\* Element codes as OBJECT_RE writes them (case-sensitive).
ElementCodes == {"Km-1", "Bm-2"}
\* The codes the re.IGNORECASE patterns accept as well.
ElementCodesI == ElementCodes \cup {"km-1"}

IsCode(t) == t.k = "code" /\ t.s \in ElementCodes
IsCodeI(t) == t.k = "code" /\ t.s \in ElementCodesI

\* re.search: the leftmost position at which a pattern matches, 0 for None.
Leftmost(S) == IF S = {} THEN 0 ELSE CHOOSE i \in S : \A j \in S : i <= j

----------------------------------------------------------------------------
(* The regular expressions, on token sequences *)

\* (code)\s+(\d+) at position i of a token stream
ObjectAt(ts, i) ==
    /\ i + 1 <= Len(ts)
    /\ IsCode(ts[i])
    /\ LeadDigits(ts[i + 1]) # <<>>

\* OBJECT_RE.findall(text): the non-overlapping matches from left to right,
\* as pairs <<code, digits>>.
RECURSIVE FindAllFrom(_, _)
FindAllFrom(ts, i) ==
    IF i > Len(ts) THEN <<>>
    ELSE IF ObjectAt(ts, i)
         THEN <<<<ts[i].s, LeadDigits(ts[i + 1])>>>> \o FindAllFrom(ts, i + 2)
         ELSE FindAllFrom(ts, i + 1)

OBJECT_RE(ts) == FindAllFrom(ts, 1)

SpecElementsAt(ln, i) ==
    /\ i + 2 <= Len(ln)
    /\ ln[i] = W("Specifikaciya")
    /\ ln[i + 1] = W("elementov")
    /\ IsCodeI(ln[i + 2])

\* SPEC_ELEMENTS_RE.search(line): start of the match, 0 for None
SPEC_ELEMENTS_RE(ln) == Leftmost({i \in 1..Len(ln) : SpecElementsAt(ln, i)})

Categories == {W("Kolonna"), W("Balka"), W("Plita"), W("Stena")}

\* number of tokens the category alternative takes at i, 0 when none does
CategoryLen(ln, i) ==
    IF i <= Len(ln) /\ ln[i] \in Categories THEN 1
    ELSE IF i + 1 <= Len(ln) /\ ln[i] = W("Steny") /\ ln[i + 1] = W("monolitnye") THEN 2
    ELSE 0

SpecHeaderAt(ln, i) ==
    /\ CategoryLen(ln, i) > 0
    /\ i + CategoryLen(ln, i) <= Len(ln)
    /\ IsCodeI(ln[i + CategoryLen(ln, i)])

\* SPEC_HEADER_RE.search(line): start of the match, 0 for None
SPEC_HEADER_RE(ln) == Leftmost({i \in 1..Len(ln) : SpecHeaderAt(ln, i)})

EmbeddedHeaderAt(ln, i) ==
    /\ i + 2 <= Len(ln)
    /\ ln[i] = W("Izdelie")
    /\ ln[i + 1] = W("zakladnoe")
    /\ ln[i + 2].k = "zd"

\* EMBEDDED_HEADER_RE.search(line): start of the match, 0 for None
EMBEDDED_HEADER_RE(ln) == Leftmost({i \in 1..Len(ln) : EmbeddedHeaderAt(ln, i)})

EmbeddedLineAt(ln, i) ==
    /\ EmbeddedHeaderAt(ln, i)
    /\ i + 3 <= Len(ln)
    /\ LeadDigits(ln[i + 3]) # <<>>

\* EMBEDDED_LINE_RE.search(line): start of the match, 0 for None
EMBEDDED_LINE_RE(ln) == Leftmost({i \in 1..Len(ln) : EmbeddedLineAt(ln, i)})

\* LINE_RE from its "Пруток" at position p: the size token at j ends the
\* name, with the grade suffix when one follows, and the quantity comes next.
\* The result is the position of the last token of fullname, 0 for no match.
LineEndWith(ln, j) ==
    IF /\ j + 2 <= Len(ln)
       /\ ln[j + 1].k = "grade"
       /\ LeadDigits(ln[j + 2]) # <<>>
    THEN j + 1
    ELSE IF j + 1 <= Len(ln) /\ LeadDigits(ln[j + 1]) # <<>> THEN j
    ELSE 0

\* .*? is lazy: the first size token after p that the rest of the pattern accepts
LineSizeAt(ln, p) ==
    Leftmost({j \in (p + 1)..Len(ln) : ln[j].k = "size" /\ LineEndWith(ln, j) > 0})

LineAt(ln, p) ==
    /\ p <= Len(ln)
    /\ ln[p] = W("Prutok")
    /\ LineSizeAt(ln, p) > 0

\* LINE_RE.search(line) as [start, last, qty]: fullname is ln[start..last] and
\* qty the digits of group "qty"; start = 0 for None.  The optional prefix is
\* greedy and an earlier start wins, so a "ГОСТ" token right before "Пруток"
\* belongs to the match.
LINE_RE(ln) ==
    LET S == {i \in 1..Len(ln) :
                \/ LineAt(ln, i)
                \/ ln[i].k = "gost" /\ LineAt(ln, i + 1)}
        i == Leftmost(S)
        p == IF i > 0 /\ ln[i].k = "gost" THEN i + 1 ELSE i
        e == IF i > 0 THEN LineEndWith(ln, LineSizeAt(ln, p)) ELSE 0
    IN  [start |-> i, last |-> e,
         qty |-> IF i > 0 THEN LeadDigits(ln[e + 1]) ELSE <<>>]

\* SIZE_RE.search(fullname): position of the first size token, 0 for None
SIZE_RE(fullname) == Leftmost({i \in 1..Len(fullname) : fullname[i].k = "size"})

----------------------------------------------------------------------------
(* The documents the model reads *)

Prutok == W("Prutok")
Izdelie == W("Izdelie")
Zakladnoe == W("zakladnoe")

\* a line of blanks only
LnSpaces == <<WS, WS>>
LnProse == <<W("Primechanie")>>
\* a section marker, its code in lower case
LnSection == <<W("Specifikaciya"), W("elementov"), Code("km-1")>>
LnHeaderKm == <<W("Kolonna"), Code("Km-1")>>
\* an element header followed, on the same line, by a section marker of another code
LnHeaderSection == <<W("Kolonna"), Code("Km-1"),
                     W("Specifikaciya"), W("elementov"), Code("km-1")>>
\* an element header with a rod item on the same line
LnHeaderRod == <<W("Steny"), W("monolitnye"), Code("Km-1"), Prutok,
                 Size("O", <<1, 2>>, <<5, 0, 0>>), Num(<<5>>)>>
LnEmbQty4 == <<Izdelie, Zakladnoe, Zd("ZD-1"), Num(<<4>>)>>
\* an embedded-item quantity line with a rod item on the same line
LnEmbQtyRod == <<Izdelie, Zakladnoe, Zd("ZD-2"), Num(<<0, 2>>), Prutok,
                 Size("O", <<1, 2>>, <<5, 0, 0>>), Num(<<5>>)>>
LnEmbHeader == <<Izdelie, Zakladnoe, Zd("ZD-1")>>
LnRodA == <<Prutok, Size("O", <<1, 2>>, <<5, 0, 0>>), Num(<<5>>)>>
LnRodGost == <<Gost("GOST 5781-82"), Prutok, W("armaturnyj"), Size("", <<1, 0>>, <<3, 0, 0>>),
               Grade("-A500C"), Num(<<0, 3>>)>>

BodyLines ==
    {LnSpaces, LnProse, LnSection, LnHeaderKm, LnHeaderSection, LnHeaderRod,
     LnEmbQty4, LnEmbQtyRod, LnEmbHeader, LnRodA, LnRodGost}

\* A page of the document: pdf.pages has no such page ("missing"),
\* extract_text() returns None ("none"), it returns "" ("empty"), or it
\* returns a text that is not empty, whose splitlines() is `lines` ("text").
Page(kind, lines) == [kind |-> kind, lines |-> lines]
NoPage == Page("missing", <<>>)
NoText == Page("none", <<>>)
EmptyText == Page("empty", <<>>)
\* a body page with text: the scan draws its lines one by one as it reads them
SomeText == Page("text", <<>>)

BodyPages == {NoText, EmptyText, SomeText}

\* A summary page: a heading, lines shaped like those of the body, and the
\* counts "Км-1 3", "Бм-2 0" and, the digits on the next line, "Км-1 07".
SummaryText ==
    Page("text", <<LnProse, LnHeaderKm, LnEmbHeader, LnRodA,
                   <<Code("Km-1"), Num(<<3>>), Code("Bm-2"), Num(<<0>>), Code("Km-1")>>,
                   <<Num(<<0, 7>>), Code("km-1"), Num(<<9>>)>>>>)

Page0Choices == {NoPage, NoText, EmptyText, SummaryText}

----------------------------------------------------------------------------
(* extract_object_counts *)

RECURSIVE Flatten(_)
\* the tokens of a text, a line break being white space like any other
Flatten(lines) ==
    IF lines = <<>> THEN <<>> ELSE Head(lines) \o Flatten(Tail(lines))

\* {m: int(q) for m, q in pairs}: a later pair replaces an earlier one
RECURSIVE DictOf(_)
DictOf(pairs) ==
    IF pairs = <<>> THEN <<>>
    ELSE LET n == Len(pairs)
             d == DictOf(SubSeq(pairs, 1, n - 1))
             m == pairs[n][1]
         IN  [k \in DOMAIN d \cup {m} |-> IF k = m THEN PyInt(pairs[n][2]) ELSE d[k]]

\* Mutant: a document without pages is read as one whose first page is empty.
HasPage0Always(pg) == TRUE

\* pdf.pages[0] raises IndexError when the document has no page
HasPage0(pg) == pg.kind # "missing"

\* text = pdf.pages[0].extract_text() or ""
TextOrEmpty(pg) == IF pg.kind = "text" THEN pg.lines ELSE <<>>

ObjectCounts(pg) == DictOf(OBJECT_RE(Flatten(TextOrEmpty(pg))))

\* process_pdf: object_counts = extract_object_counts(pdf); the IndexError
\* leaves the with and the try block, and digitize is not called.
ExtractObjectCounts ==
    /\ pc = "extract"
    /\ IF HasPage0(page0)
       THEN /\ object_counts' = <<ObjectCounts(page0)>>
            /\ pc' = "digitize"
       ELSE /\ object_counts' = object_counts
            /\ pc' = "error"
    /\ UNCHANGED <<suspended, page0, current_element, embedded_qty, in_embedded, rows, page_index,
                   line, result_rows, line_no, nlines>>

----------------------------------------------------------------------------
(* digitize: the scan *)

\* the classifier state and the table, as one value
State(cur, qty, emb, rws) ==
    [current_element |-> cur, embedded_qty |-> qty, in_embedded |-> emb, rows |-> rws]

Here == State(current_element, embedded_qty, in_embedded, rows)

\* rows = defaultdict(...); current_element = None; embedded_qty = 0; in_embedded = False
InitialState == State("None", 0, FALSE, <<>>)

\* not line or not line.strip()
Blank(ln) == \A i \in 1..Len(ln) : ln[i] = WS

\* not text
NotText(pg) == pg.kind \in {"none", "empty"}

\* Mutant: the test for a current element is missing.
NotElementNever(cur) == FALSE

\* not current_element
NotElement(cur) == cur = "None" \/ cur = ""

\* Mutant: a line that is ignored ends the embedded context.
IgnoreClearsEmbedded(st) == [st EXCEPT !.in_embedded = FALSE]

\* continue: a line that is blank, comes before the first header, matches no
\* pattern or has no size leaves everything as it is
Ignore(st) == st

\* Mutant: a header sets the element and leaves the embedded state alone.
OnHeaderKeepEmbedded(st, code) == [st EXCEPT !.current_element = code]

\* the three assignments after a section marker or an element header
OnHeader(st, code) ==
    [st EXCEPT !.current_element = code, !.in_embedded = FALSE, !.embedded_qty = 0]

\* Mutant: a quantity line ends the embedded context.
OnEmbeddedLineLeaves(st, digits) ==
    [st EXCEPT !.embedded_qty = PyInt(digits), !.in_embedded = FALSE]

\* Mutant: a quantity line opens the embedded context as a header does.
OnEmbeddedLineEnters(st, digits) ==
    [st EXCEPT !.embedded_qty = PyInt(digits), !.in_embedded = TRUE]

\* embedded_qty = int(embedded_line.group(2))
OnEmbeddedLine(st, digits) == [st EXCEPT !.embedded_qty = PyInt(digits)]

\* in_embedded = True
OnEmbeddedHeader(st) == [st EXCEPT !.in_embedded = TRUE]

\* the value the defaultdict makes for a key it does not hold
DefaultRow(key) == [key |-> key, direct |-> 0, in_zd |-> 0, zd |-> 0]

HasKey(rws, key) == \E i \in 1..Len(rws) : rws[i].key = key

IndexOf(rws, key) == CHOOSE i \in 1..Len(rws) : rws[i].key = key

\* rows[key]: a missing key is inserted, after every key the dict holds
Touch(rws, key) == IF HasKey(rws, key) THEN rws ELSE Append(rws, DefaultRow(key))

\* Mutant: the embedded instance count is accumulated.
RecordSumCount(rws, key, qty, emb, eqty) ==
    LET rs == Touch(rws, key)
        i == IndexOf(rs, key)
    IN  IF emb
        THEN [rs EXCEPT ![i].in_zd = @ + qty, ![i].zd = @ + eqty]
        ELSE [rs EXCEPT ![i].direct = @ + qty]

\* Mutant: a key that is written moves to the end of the table.
RecordMoveToEnd(rws, key, qty, emb, eqty) ==
    LET c == IF HasKey(rws, key) THEN rws[IndexOf(rws, key)] ELSE DefaultRow(key)
        rest == SelectSeq(rws, LAMBDA r : r.key # key)
    IN  Append(rest, IF emb
                     THEN [c EXCEPT !.in_zd = @ + qty, !.zd = eqty]
                     ELSE [c EXCEPT !.direct = @ + qty])

\* Mutant: the embedded instance count is stored in either context.
RecordCountAlways(rws, key, qty, emb, eqty) ==
    LET rs == Touch(rws, key)
        i == IndexOf(rs, key)
    IN  IF emb
        THEN [rs EXCEPT ![i].in_zd = @ + qty, ![i].zd = eqty]
        ELSE [rs EXCEPT ![i].direct = @ + qty, ![i].zd = eqty]

\* Mutant: a quantity replaces what the record holds.
RecordOverwrite(rws, key, qty, emb, eqty) ==
    LET rs == Touch(rws, key)
        i == IndexOf(rs, key)
    IN  IF emb
        THEN [rs EXCEPT ![i].in_zd = qty, ![i].zd = eqty]
        ELSE [rs EXCEPT ![i].direct = qty]

\* the if in_embedded / else of the loop body
Record(rws, key, qty, emb, eqty) ==
    LET rs == Touch(rws, key)
        i == IndexOf(rs, key)
    IN  IF emb
        THEN [rs EXCEPT ![i].in_zd = @ + qty, ![i].zd = eqty]
        ELSE [rs EXCEPT ![i].direct = @ + qty]

\* fullname = line_match.group("fullname").strip(): it starts and ends with a
\* token, so there is nothing for strip() to remove
FullName(ln) == SubSeq(ln, LINE_RE(ln).start, LINE_RE(ln).last)

\* key = (current_element, fullname, diameter, length)
KeyOf(cur, ln) ==
    LET fullname == FullName(ln)
        size == fullname[SIZE_RE(fullname)]
    IN  <<cur, fullname, PyInt(size.a), PyInt(size.b)>>

\* Mutant: the rod-line pattern is tried first.
BranchRodFirst(cur, ln) ==
    IF Blank(ln) THEN "blank"
    ELSE IF ~NotElement(cur) /\ LINE_RE(ln).start > 0 THEN "rod"
    ELSE IF SPEC_ELEMENTS_RE(ln) > 0 THEN "spec_elements"
    ELSE IF SPEC_HEADER_RE(ln) > 0 THEN "header"
    ELSE IF NotElement(cur) THEN "no_element"
    ELSE IF EMBEDDED_LINE_RE(ln) > 0 THEN "embedded_line"
    ELSE IF EMBEDDED_HEADER_RE(ln) > 0 THEN "embedded_header"
    ELSE "no_match"

\* The branch of the loop body a line takes, the tests in the code's order.
Branch(cur, ln) ==
    IF Blank(ln) THEN "blank"
    ELSE IF SPEC_ELEMENTS_RE(ln) > 0 THEN "spec_elements"
    ELSE IF SPEC_HEADER_RE(ln) > 0 THEN "header"
    ELSE IF NotElement(cur) THEN "no_element"
    ELSE IF EMBEDDED_LINE_RE(ln) > 0 THEN "embedded_line"
    ELSE IF EMBEDDED_HEADER_RE(ln) > 0 THEN "embedded_header"
    ELSE IF LINE_RE(ln).start = 0 THEN "no_match"
    ELSE IF SIZE_RE(FullName(ln)) = 0 THEN "no_size"
    ELSE "rod"

\* One run of the body of "for line in text.splitlines()".
LoopBody(st, ln) ==
    LET b == Branch(st.current_element, ln)
    IN  CASE b = "spec_elements" ->
               OnHeader(st, ln[SPEC_ELEMENTS_RE(ln) + 2].s)
          [] b = "header" ->
               OnHeader(st, ln[SPEC_HEADER_RE(ln) + CategoryLen(ln, SPEC_HEADER_RE(ln))].s)
          [] b = "embedded_line" ->
               OnEmbeddedLine(st, LeadDigits(ln[EMBEDDED_LINE_RE(ln) + 3]))
          [] b = "embedded_header" ->
               OnEmbeddedHeader(st)
          [] b = "rod" ->
               [st EXCEPT !.rows = Record(st.rows, KeyOf(st.current_element, ln),
                                          PyInt(LINE_RE(ln).qty), st.in_embedded,
                                          st.embedded_qty)]
          [] OTHER -> Ignore(st)

SetState(st) ==
    /\ current_element' = st.current_element
    /\ embedded_qty' = st.embedded_qty
    /\ in_embedded' = st.in_embedded
    /\ rows' = st.rows

\* digitize is entered: its locals are set (lines 86-94)
EnterDigitize ==
    /\ pc = "digitize"
    /\ SetState(InitialState)
    /\ page_index' = 0
    /\ pc' = "page0"
    /\ UNCHANGED <<suspended, page0, object_counts, line, result_rows, line_no, nlines>>

\* the loop body on the lines of a text, one after the other
RECURSIVE ScanLines(_, _)
ScanLines(st, lines) ==
    IF lines = <<>> THEN st ELSE ScanLines(LoopBody(st, Head(lines)), Tail(lines))

\* Mutant: the summary page is scanned like a body page.
AfterSummaryPageScanned(st, pg) == ScanLines(st, TextOrEmpty(pg))

\* for page_index, page in enumerate(pdf.pages): if page_index == 0: continue
\* The state the scan is in after the summary page.
AfterSummaryPage(st, pg) == st

SkipSummaryPage ==
    /\ pc = "page0"
    /\ SetState(AfterSummaryPage(Here, page0))
    /\ pc' = "pages"
    /\ UNCHANGED <<suspended, page0, object_counts, page_index, line, result_rows, line_no, nlines>>

\* Mutant: the embedded context ends with the page.
AtPageStartReset(st) == [st EXCEPT !.in_embedded = FALSE, !.embedded_qty = 0]

\* The state the scan is in when it turns to the next page.
AtPageStart(st) == st

\* the next page of the loop: text = page.extract_text(); if not text: continue
BeginPage(pg) ==
    /\ pc = "pages"
    /\ page_index < MaxPages
    /\ pg.kind = "text" => nlines < MaxLines
    /\ page_index' = page_index + 1
    /\ SetState(AtPageStart(Here))
    /\ pc' = IF NotText(pg) THEN "pages" ELSE "lines"
    /\ line' = <<>>
    /\ line_no' = 0
    /\ UNCHANGED <<suspended, page0, object_counts, result_rows, nlines>>

\* Whether some recognizer of the scan matches the line.
Recognized(ln) ==
    \/ SPEC_ELEMENTS_RE(ln) > 0
    \/ SPEC_HEADER_RE(ln) > 0
    \/ EMBEDDED_LINE_RE(ln) > 0
    \/ EMBEDDED_HEADER_RE(ln) > 0
    \/ LINE_RE(ln).start > 0

\* for line in text.splitlines(): one line and the loop body on it
ReadLine(ln) ==
    /\ pc = "lines"
    /\ nlines < MaxLines
    /\ SetState(LoopBody(Here, ln))
    /\ line' = <<ln>>
    /\ line_no' = line_no + 1
    /\ nlines' = nlines + 1
    /\ UNCHANGED <<suspended, pc, page0, object_counts, page_index, result_rows>>

\* the lines of the page are exhausted (a text that is not empty has a line)
EndPage ==
    /\ pc = "lines"
    /\ line_no > 0
    /\ pc' = "pages"
    /\ line' = <<>>
    /\ line_no' = 0
    /\ UNCHANGED <<suspended, page0, object_counts, current_element, embedded_qty, in_embedded, rows,
                   page_index, result_rows, nlines>>

----------------------------------------------------------------------------
(* digitize: the result rows *)

\* Mutant: object_counts.get(element, 0).
ObjQtyDefaultZero(oc, element) == IF element \in DOMAIN oc THEN oc[element] ELSE 0

\* obj_qty = object_counts.get(element, 1)
ObjQty(oc, element) == IF element \in DOMAIN oc THEN oc[element] ELSE 1

\* Mutant: object_counts.setdefault(element, 1).
AfterGetStores(oc, element) ==
    [k \in DOMAIN oc \cup {element} |-> IF k \in DOMAIN oc THEN oc[k] ELSE 1]

\* object_counts after object_counts.get(element, 1): get stores nothing
AfterGet(oc, element) == oc

\* object_counts after the lookups of the projection loop, one per item of rows
RECURSIVE CountsAfter(_, _)
CountsAfter(rws, oc) ==
    IF rws = <<>> THEN oc
    ELSE CountsAfter(Tail(rws), AfterGet(oc, Head(rws).key[1]))

\* Mutant: the embedded term is not multiplied by the object count.
TotalEmbeddedUnscaled(c, obj_qty) == c.direct * obj_qty + c.in_zd * c.zd

\* total = direct * obj_qty + in_zd * zd * obj_qty
Total(c, obj_qty) == c.direct * obj_qty + c.in_zd * c.zd * obj_qty

\* the dict appended to result_rows for one item of rows
ResultRow(c, oc) ==
    [Element |-> c.key[1],
     Naimenovanie |-> c.key[2],
     Diametr |-> c.key[3],
     Dlina |-> c.key[4],
     PrutkiNapryamuyu |-> c.direct,
     PrutkiVZD |-> c.in_zd,
     KolichestvoObektov |-> ObjQty(oc, c.key[1]),
     KolichestvoZD |-> c.zd,
     ObshcheeKolichestvo |-> Total(c, ObjQty(oc, c.key[1]))]

\* for ... in rows.items(): result_rows.append(...)
ResultRows(rws, oc) == [i \in 1..Len(rws) |-> ResultRow(rws[i], oc)]

\* the pages are exhausted: the rows are projected and digitize returns
Project ==
    /\ pc = "pages"
    /\ result_rows' = <<ResultRows(rows, object_counts[1])>>
    /\ object_counts' = <<CountsAfter(rows, object_counts[1])>>
    /\ pc' = "done"
    /\ UNCHANGED <<suspended, page0, current_element, embedded_qty, in_embedded, rows,
                   page_index, line, line_no, nlines>>

----------------------------------------------------------------------------

\* there is no second call
NoCall == [pc |-> "none"]

Init ==
    /\ pc = "extract"
    /\ page0 \in Page0Choices
    /\ object_counts = <<>>
    /\ current_element = "None"
    /\ embedded_qty = 0
    /\ in_embedded = FALSE
    /\ rows = <<>>
    /\ page_index = 0
    /\ line = <<>>
    /\ result_rows = <<>>
    /\ line_no = 0
    /\ nlines = 0
    /\ suspended = NoCall

Next ==
    \/ ExtractObjectCounts
    \/ EnterDigitize
    \/ SkipSummaryPage
    \/ \E pg \in BodyPages : BeginPage(pg)
    \/ \E ln \in BodyLines : ReadLine(ln)
    \/ EndPage
    \/ Project

Spec == Init /\ [][Next]_vars

----------------------------------------------------------------------------
(* Two calls of process_pdf, on two documents, their steps interleaved *)

\* the locals of the call that runs
Frame ==
    [pc |-> pc, page0 |-> page0, object_counts |-> object_counts,
     current_element |-> current_element, embedded_qty |-> embedded_qty,
     in_embedded |-> in_embedded, rows |-> rows, page_index |-> page_index,
     line |-> line, result_rows |-> result_rows, line_no |-> line_no,
     nlines |-> nlines]

\* Mutant: rows is a table of the module, which the two calls share.
ResumeSharedRows(fr, running) == [fr EXCEPT !.rows = running.rows]

\* What a call finds when it goes on: object_counts, rows and the classifier
\* state are locals of the call, and the call that ran meanwhile had its own.
Resume(fr, running) == fr

\* The other call runs from here on.
Switch ==
    /\ suspended # NoCall
    /\ suspended' = Frame
    /\ \A fr \in {Resume(suspended, Frame)} :
        /\ pc' = fr.pc
        /\ page0' = fr.page0
        /\ object_counts' = fr.object_counts
        /\ current_element' = fr.current_element
        /\ embedded_qty' = fr.embedded_qty
        /\ in_embedded' = fr.in_embedded
        /\ rows' = fr.rows
        /\ page_index' = fr.page_index
        /\ line' = fr.line
        /\ result_rows' = fr.result_rows
        /\ line_no' = fr.line_no
        /\ nlines' = fr.nlines

\* The second document: its summary page counts "Км-1" twice.
SummaryOther == Page("text", <<<<Code("Km-1"), Num(<<2>>)>>>>)

\* The body pages of the two documents, each known by its summary page.
Body(p0) ==
    IF p0 = SummaryText
    THEN <<Page("text", <<LnHeaderKm, LnRodA>>),
           Page("text", <<LnEmbHeader, LnEmbQty4, LnRodA>>)>>
    ELSE <<Page("text", <<LnHeaderKm, LnRodGost>>),
           Page("text", <<LnRodA>>)>>

InitPair ==
    /\ pc = "extract"
    /\ page0 = SummaryText
    /\ object_counts = <<>>
    /\ current_element = "None"
    /\ embedded_qty = 0
    /\ in_embedded = FALSE
    /\ rows = <<>>
    /\ page_index = 0
    /\ line = <<>>
    /\ result_rows = <<>>
    /\ line_no = 0
    /\ nlines = 0
    /\ suspended = [Frame EXCEPT !.page0 = SummaryOther]

\* A step of the call that runs, on the pages of its document, or a switch.
NextPair ==
    \/ ExtractObjectCounts
    \/ EnterDigitize
    \/ SkipSummaryPage
    \/ /\ pc = "pages"
       /\ page_index < Len(Body(page0))
       /\ BeginPage(Body(page0)[page_index + 1])
    \/ /\ pc = "lines"
       /\ line_no < Len(Body(page0)[page_index].lines)
       /\ ReadLine(Body(page0)[page_index].lines[line_no + 1])
    \/ /\ pc = "lines"
       /\ line_no = Len(Body(page0)[page_index].lines)
       /\ EndPage
    \/ /\ page_index = Len(Body(page0))
       /\ Project
    \/ Switch

SpecPair == InitPair /\ [][NextPair]_vars

----------------------------------------------------------------------------
(* Properties *)

\* the rows digitize returned, <<>> while it has not returned
Returned == IF result_rows = <<>> THEN <<>> ELSE result_rows[1]

\* the map extract_object_counts returned
CountsReturned == object_counts # <<>>

\* C1: in every row digitize returns, the total equals the direct count times
\* the row's object count plus the rods per embedded item times the number of
\* embedded items times the row's object count, all as the row reports them.
C1_TotalQuantity ==
    \A i \in 1..Len(Returned) :
        LET r == Returned[i]
        IN  r.ObshcheeKolichestvo =
                r.PrutkiNapryamuyu * r.KolichestvoObektov
                + r.PrutkiVZD * r.KolichestvoZD * r.KolichestvoObektov

\* a returned row with both terms of the total positive and an object count above 1
C1_Witness ==
    \E i \in 1..Len(Returned) :
        /\ Returned[i].PrutkiNapryamuyu > 0
        /\ Returned[i].PrutkiVZD > 0
        /\ Returned[i].KolichestvoZD > 0
        /\ Returned[i].KolichestvoObektov > 1

\* C6: a returned row's object count is the map's value for the row's element
\* when the map has the element, and 1 when it has not; with no text on page 0
\* the map is empty and every object count is 1.
C6_ObjectMultiplier ==
    \A i \in 1..Len(Returned) :
        LET r == Returned[i]
            oc == object_counts[1]
        IN  /\ r.Element \in DOMAIN oc => r.KolichestvoObektov = oc[r.Element]
            /\ r.Element \notin DOMAIN oc => r.KolichestvoObektov = 1
            /\ page0 \in {NoText, EmptyText} => r.KolichestvoObektov = 1

\* rows returned for an element the summary page counts (7 times) and for one
\* it does not count
C6_Witness ==
    /\ \E i \in 1..Len(Returned) :
           /\ Returned[i].Element = "Km-1"
           /\ Returned[i].KolichestvoObektov = 7
    /\ \E i \in 1..Len(Returned) :
           /\ Returned[i].Element \notin DOMAIN object_counts[1]
           /\ Returned[i].KolichestvoObektov = 1

\* C7: every value of the map extract_object_counts returns is at least 1, and
\* so is every returned row's object count.
C7_PositiveCounts ==
    /\ CountsReturned => \A e \in DOMAIN object_counts[1] : object_counts[1][e] >= 1
    /\ \A i \in 1..Len(Returned) : Returned[i].KolichestvoObektov >= 1

\* C10: without a page 0 the processing ends in the error state, with no map
\* and no rows; with a page 0 that has no text, extract_object_counts returns
\* the empty map and there is no error.
C10_MissingSummaryPage ==
    /\ (page0 = NoPage /\ pc # "extract") =>
           /\ pc = "error"
           /\ ~CountsReturned
           /\ result_rows = <<>>
    /\ (page0 \in {NoText, EmptyText} /\ pc # "extract") =>
           /\ pc # "error"
           /\ CountsReturned
           /\ DOMAIN object_counts[1] = {}

\* the error state, reached from a document without pages
C10_Witness == page0 = NoPage /\ pc = "error"

(* Steps, as the action properties see them *)

\* a step that reads a line and runs the loop body on it; line' holds the line
LineRead == nlines' = nlines + 1

\* a step that turns to the next page, with or without text
PageBegins == page_index' # page_index

\* a step that leaves a page whose lines are exhausted
PageEnds == pc = "lines" /\ pc' = "pages"

Classifier == <<current_element, embedded_qty, in_embedded>>

Scan == <<current_element, embedded_qty, in_embedded, rows>>

\* a section marker or an element header
IsHeaderLine(ln) == SPEC_ELEMENTS_RE(ln) > 0 \/ SPEC_HEADER_RE(ln) > 0

\* the element code a header line sets: the one its section marker names when
\* it has a section marker, the one after its category otherwise
CodeIn(ln) ==
    LET after(w) == {i \in 2..Len(ln) : ln[i].k = "code" /\ ln[i - 1] = w}
        marked == after(W("elementov"))
    IN  ln[CHOOSE i \in 1..Len(ln) :
               /\ ln[i].k = "code"
               /\ marked # {} => i \in marked].s

\* the number a line ends with
QtyIn(ln) == PyInt(ln[Len(ln)].a)

\* the loop body records a rod quantity for the line
RodRecorded(ln) == Branch(current_element, ln) = "rod"

RowFor(rws, key) == IF HasKey(rws, key) THEN rws[IndexOf(rws, key)] ELSE DefaultRow(key)

Keys(rws) == [i \in 1..Len(rws) |-> rws[i].key]

RECURSIVE SumOf(_, _)
SumOf(rws, field) ==
    IF rws = <<>> THEN 0 ELSE Head(rws)[field] + SumOf(Tail(rws), field)

\* C2: reading a section marker or an element header makes the classifier
\* state (the code on the line, not embedded, embedded count 0) whatever it was;
\* the embedded flag is raised only by an embedded-item header that carries no
\* quantity, and a rod line read while the flag is down adds its quantity to a
\* direct count and to no embedded count.
C2_HeaderResets ==
    [][LineRead =>
        \A ln \in {line'[1]} :
            /\ IsHeaderLine(ln) =>
                /\ current_element' = CodeIn(ln)
                /\ in_embedded' = FALSE
                /\ embedded_qty' = 0
            /\ (in_embedded' /\ ~in_embedded) =>
                /\ EMBEDDED_HEADER_RE(ln) > 0
                /\ EMBEDDED_LINE_RE(ln) = 0
                /\ ~IsHeaderLine(ln)
            /\ (RodRecorded(ln) /\ ~in_embedded) =>
                /\ SumOf(rows', "direct") = SumOf(rows, "direct") + QtyIn(ln)
                /\ SumOf(rows', "in_zd") = SumOf(rows, "in_zd")
                /\ \E i \in 1..Len(rows') :
                       /\ rows'[i].key[1] = current_element
                       /\ rows'[i].direct >= QtyIn(ln)
    ]_vars

\* a rod line recorded as direct under a second element, after a rod line was
\* recorded as embedded under the first
C2_Witness ==
    /\ pc = "lines"
    /\ line = <<LnRodA>>
    /\ ~in_embedded
    /\ Len(rows) = 2
    /\ rows[1].key[1] = "Km-1" /\ rows[1].in_zd > 0
    /\ rows[2].key[1] = "km-1" /\ rows[2].direct = 5 /\ rows[2].in_zd = 0

\* C3: a rod line read in the embedded context adds its quantity to the rods
\* per embedded item of the record of (current element, rod) and sets that
\* record's embedded instance count to the classifier's embedded count of that
\* moment; nothing else changes an embedded instance count, and a record made
\* by a direct rod line has the count 0.
C3_EmbeddedCount ==
    [][IF LineRead /\ RodRecorded(line'[1])
       THEN \A ln \in {line'[1]} :
            \A key \in {KeyOf(current_element, ln)} :
            \A old \in {RowFor(rows, key)}, new \in {RowFor(rows', key)} :
                /\ HasKey(rows', key)
                /\ Len(rows') = IF HasKey(rows, key) THEN Len(rows) ELSE Len(rows) + 1
                /\ in_embedded =>
                    /\ new.in_zd = old.in_zd + QtyIn(ln)
                    /\ new.zd = embedded_qty
                    /\ new.direct = old.direct
                /\ ~in_embedded => new.zd = old.zd
                /\ \A i \in 1..Len(rows) :
                       rows[i].key # key => RowFor(rows', rows[i].key) = rows[i]
       ELSE rows' = rows
    ]_vars

\* two embedded rod lines for one key, the count 0 at the first and 4 at the
\* second: the record holds 4
C3_Witness ==
    /\ pc = "lines"
    /\ line = <<LnRodA>>
    /\ in_embedded
    /\ embedded_qty = 4
    /\ nlines = 5
    /\ Len(rows) = 1
    /\ rows[1].in_zd = 10 /\ rows[1].zd = 4 /\ rows[1].direct = 0

\* C4: while no current element is set, a line that is no header leaves the
\* classifier state and the table as they are; the table is empty as long as
\* no element is set, digitize then returns no rows, and the only error is
\* that of a document without pages.
C4_GuardBeforeHeader ==
    /\ [][(LineRead /\ current_element = "None" /\ ~IsHeaderLine(line'[1])) =>
            UNCHANGED Scan]_vars
    /\ [](current_element = "None" =>
            /\ rows = <<>>
            /\ pc = "done" => result_rows = <<<<>>>>
            /\ pc = "error" => page0 = NoPage)

\* a rod line read as the third line, with no element set and the table empty
C4_Witness ==
    /\ pc = "lines"
    /\ current_element = "None"
    /\ line = <<LnRodA>>
    /\ nlines = 3
    /\ rows = <<>>

\* C5: the returned rows are the records of the table, one per key and in the
\* table's order; a rod line for a new key appends the key, and no other step
\* changes the sequence of keys.
C5_FirstOccurrenceOrder ==
    /\ [][IF LineRead /\ RodRecorded(line'[1])
          THEN \A key \in {KeyOf(current_element, line'[1])} :
                   Keys(rows') = IF HasKey(rows, key)
                                 THEN Keys(rows)
                                 ELSE Append(Keys(rows), key)
          ELSE Keys(rows') = Keys(rows)
       ]_vars
    /\ [](/\ \A i, j \in 1..Len(rows) : rows[i].key = rows[j].key => i = j
          /\ result_rows # <<>> =>
                /\ Len(Returned) = Len(rows)
                /\ \A i \in 1..Len(rows) :
                       <<Returned[i].Element, Returned[i].Naimenovanie,
                         Returned[i].Diametr, Returned[i].Dlina>> = rows[i].key)

\* two rows returned, the first for the key that a later line added to again
C5_Witness ==
    /\ Len(Returned) = 2
    /\ Returned[1].Naimenovanie = SubSeq(LnRodA, 1, 2)
    /\ Returned[1].PrutkiNapryamuyu = 10
    /\ Returned[2].Naimenovanie = SubSeq(LnRodGost, 1, 5)
    /\ Returned[2].Element = Returned[1].Element

\* C8: a body page without text is passed over with the classifier state and
\* the table unchanged, and so is a line that no recognizer matches; entering
\* and leaving a page change neither.
C8_PlainPage ==
    [][/\ (PageBegins /\ pc' = "pages") => (page_index' = page_index + 1 /\ UNCHANGED Scan)
       /\ (PageBegins /\ pc' = "lines") => UNCHANGED Scan
       /\ (LineRead /\ ~Recognized(line'[1])) => UNCHANGED Scan
       /\ PageEnds => UNCHANGED Scan
    ]_vars

\* the second body page starts with a line of prose, in an embedded context
\* and with a record in the table
C8_Witness ==
    /\ pc = "lines"
    /\ page_index = 2
    /\ line_no = 1
    /\ line = <<LnProse>>
    /\ in_embedded
    /\ rows # <<>>

\* C9: the classifier state changes only when a header, an embedded quantity
\* line or an embedded header is read, never at a page boundary; a rod line
\* that is the first line of its page is recorded under the element and in the
\* context the pages before it left.
C9_StateAcrossPages ==
    [][/\ Classifier' # Classifier =>
            /\ LineRead
            /\ \/ IsHeaderLine(line'[1])
               \/ EMBEDDED_LINE_RE(line'[1]) > 0
               \/ EMBEDDED_HEADER_RE(line'[1]) > 0
       /\ (PageBegins \/ PageEnds) => UNCHANGED Scan
       /\ (LineRead /\ line_no = 0 /\ RodRecorded(line'[1])) =>
            \A ln \in {line'[1]} :
            \A key \in {<<current_element>> \o Tail(KeyOf(current_element, ln))} :
            \A field \in {IF in_embedded THEN "in_zd" ELSE "direct"} :
                /\ HasKey(rows', key)
                /\ RowFor(rows', key)[field] = RowFor(rows, key)[field] + QtyIn(ln)
                /\ in_embedded => RowFor(rows', key).zd = embedded_qty
    ]_vars

\* the header, the embedded header and the count 4 on page 1, the rod line
\* first on page 2 and recorded as embedded under that element
C9_Witness ==
    /\ pc = "lines"
    /\ page_index = 2
    /\ line_no = 1
    /\ nlines = 4
    /\ line = <<LnRodA>>
    /\ Len(rows) = 1
    /\ rows[1].key[1] = "Km-1" /\ rows[1].in_zd = 5 /\ rows[1].zd = 4

(* What a line says, read off its tokens *)

\* the code that follows the words of a section marker
MarkerCode(ln) ==
    ln[Leftmost({i \in 3..Len(ln) : /\ ln[i].k = "code"
                                    /\ ln[i - 1] = W("elementov")
                                    /\ ln[i - 2] = W("Specifikaciya")})].s

\* the code that follows the category of an element header
HeaderCode(ln) ==
    ln[Leftmost({i \in 2..Len(ln) : /\ ln[i].k = "code"
                                    /\ ln[i - 1] \in Categories \cup {W("monolitnye")}})].s

\* the number that follows the code of an embedded item
EmbQtyIn(ln) ==
    PyInt(ln[Leftmost({i \in 2..Len(ln) : ln[i].k = "num" /\ ln[i - 1].k = "zd"})].a)

\* C14: a line that is read takes the action of the first recognizer it
\* satisfies, in the order section marker, element header, guard, embedded
\* quantity line, embedded header, rod line, and only that action: a header
\* line sets the element and resets the embedded state and records nothing
\* even when it holds a rod item; a line that satisfies both embedded
\* recognizers only sets the embedded count; the table changes only on a line
\* that satisfies the rod recognizer and none before it.
C14_PriorityDispatch ==
    [][LineRead =>
        \A ln \in {line'[1]} :
            /\ SPEC_ELEMENTS_RE(ln) > 0 =>
                    Scan' = <<MarkerCode(ln), 0, FALSE, rows>>
            /\ (SPEC_ELEMENTS_RE(ln) = 0 /\ SPEC_HEADER_RE(ln) > 0) =>
                    Scan' = <<HeaderCode(ln), 0, FALSE, rows>>
            /\ (~IsHeaderLine(ln) /\ current_element = "None") =>
                    UNCHANGED Scan
            /\ (~IsHeaderLine(ln) /\ current_element # "None") =>
                    /\ EMBEDDED_LINE_RE(ln) > 0 =>
                            Scan' = <<current_element, EmbQtyIn(ln), in_embedded, rows>>
                    /\ (EMBEDDED_LINE_RE(ln) = 0 /\ EMBEDDED_HEADER_RE(ln) > 0) =>
                            Scan' = <<current_element, embedded_qty, TRUE, rows>>
            /\ rows' # rows =>
                    /\ ~Blank(ln)
                    /\ ~IsHeaderLine(ln)
                    /\ current_element # "None"
                    /\ EMBEDDED_HEADER_RE(ln) = 0
                    /\ LINE_RE(ln).start > 0
                    /\ UNCHANGED Classifier
    ]_vars

\* an element header with a rod item on its line, read in the embedded
\* context: the context is reset and the table is as the rod line before left it
C14_Witness ==
    /\ pc = "lines"
    /\ line = <<LnHeaderRod>>
    /\ current_element = "Km-1"
    /\ ~in_embedded
    /\ embedded_qty = 0
    /\ Len(rows) = 1
    /\ rows[1].in_zd = 5 /\ rows[1].direct = 0

\* C15: an embedded quantity line read while an element is set overwrites the
\* embedded count with the quantity on the line and leaves the embedded flag,
\* the element and the table as they are; the flag is not raised by such a
\* line, so a rod line that follows a header and quantity lines only is
\* recorded as direct: its quantity goes to the direct count of its record, and
\* the record's embedded fields stay as they were.
C15_EmbeddedQuantityLine ==
    [][LineRead =>
        \A ln \in {line'[1]} :
            /\ (EMBEDDED_LINE_RE(ln) > 0 /\ ~IsHeaderLine(ln) /\ current_element # "None") =>
                    /\ embedded_qty' = EmbQtyIn(ln)
                    /\ UNCHANGED <<in_embedded, current_element, rows>>
            /\ (EMBEDDED_LINE_RE(ln) > 0 /\ ~in_embedded) => ~in_embedded'
            /\ (RodRecorded(ln) /\ ~in_embedded) =>
                    \A key \in {KeyOf(current_element, ln)} :
                    \A old \in {RowFor(rows, key)}, new \in {RowFor(rows', key)} :
                        /\ new.direct = old.direct + QtyIn(ln)
                        /\ new.in_zd = old.in_zd
                        /\ new.zd = old.zd
    ]_vars

\* a header, the embedded quantity 4 and a rod line: the rod is direct, and its
\* record has no embedded count
C15_Witness ==
    /\ pc = "lines"
    /\ nlines = 3
    /\ line = <<LnRodA>>
    /\ embedded_qty = 4
    /\ ~in_embedded
    /\ Len(rows) = 1
    /\ rows[1].direct = 5 /\ rows[1].in_zd = 0 /\ rows[1].zd = 0

\* the keys of a table, as a set
KeySet(rws) == {rws[i].key : i \in 1..Len(rws)}

\* C16: the table starts empty, and at every step each key's direct count
\* grows by exactly the quantity of a rod line recorded for that key with the
\* flag down, and its rods per embedded item by exactly the quantity of a rod
\* line recorded for that key with the flag up; no other step and no other
\* key's rod line changes either number, and no key is dropped.  So each
\* number is the sum of the quantities of its key's rod events of that context.
C16_QuantityConservation ==
    /\ [][/\ KeySet(rows) \subseteq KeySet(rows')
          /\ \A rod \in {LineRead /\ RodRecorded(line'[1])} :
             \A key \in KeySet(rows') :
             \A mine \in {rod /\ key = KeyOf(current_element, line'[1])} :
             \A old \in {RowFor(rows, key)}, new \in {RowFor(rows', key)} :
                 /\ new.direct = old.direct
                        + (IF mine /\ ~in_embedded THEN QtyIn(line'[1]) ELSE 0)
                 /\ new.in_zd = old.in_zd
                        + (IF mine /\ in_embedded THEN QtyIn(line'[1]) ELSE 0)
          /\ (LineRead /\ RodRecorded(line'[1])) =>
                 KeyOf(current_element, line'[1]) \in KeySet(rows')
       ]_vars
    /\ [](/\ pc \in {"extract", "digitize", "page0", "error"} => rows = <<>>
          /\ \A i, j \in 1..Len(rows) : rows[i].key = rows[j].key => i = j
          /\ \A i \in 1..Len(Returned) :
                 /\ Returned[i].PrutkiNapryamuyu = rows[i].direct
                 /\ Returned[i].PrutkiVZD = rows[i].in_zd)

\* the row returned after two direct rod lines and one embedded rod line for
\* one key
C16_Witness ==
    /\ Len(Returned) = 1
    /\ Returned[1].PrutkiNapryamuyu = 10
    /\ Returned[1].PrutkiVZD = 5

\* C17: a rod line recorded with the flag down changes the direct count of its
\* own key's record and nothing else: that record's rods per embedded item and
\* embedded instance count, every other record and the classifier state stay
\* as they are.  A record without embedded rods (the quantities of the rod
\* lines being positive, one that only direct rod lines wrote) has the embedded
\* instance count 0, whatever the classifier's embedded count is.
C17_DirectRodFrame ==
    /\ [][(LineRead /\ RodRecorded(line'[1]) /\ ~in_embedded) =>
            \A key \in {KeyOf(current_element, line'[1])} :
                /\ UNCHANGED Classifier
                /\ rows' = [Touch(rows, key) EXCEPT
                                ![IndexOf(Touch(rows, key), key)] =
                                    [RowFor(rows, key) EXCEPT
                                        !.direct = @ + QtyIn(line'[1])]]
                /\ RowFor(rows', key).in_zd = RowFor(rows, key).in_zd
                /\ RowFor(rows', key).zd = RowFor(rows, key).zd
                /\ \A i \in 1..Len(rows) : rows[i].key # key => rows'[i] = rows[i]
       ]_vars
    /\ [](\A i \in 1..Len(rows) :
            rows[i].in_zd = 0 => (rows[i].zd = 0 /\ rows[i].direct > 0))

\* two direct rod lines for one key after the embedded quantity 4
C17_Witness ==
    /\ pc = "lines"
    /\ nlines = 4
    /\ embedded_qty = 4
    /\ ~in_embedded
    /\ Len(rows) = 1
    /\ rows[1].direct = 10 /\ rows[1].in_zd = 0 /\ rows[1].zd = 0

\* C20: the embedded flag goes down only when a section marker or an element
\* header is read; an embedded header that is processed raises it, and from
\* then on no embedded quantity line, unrecognized line or page boundary lowers
\* it, so that every rod line recorded before the next header adds its
\* quantity to the rods per embedded item of its record and leaves every
\* direct count as it is.
C20_EmbeddedContextPersists ==
    [][/\ (in_embedded /\ ~in_embedded') => (LineRead /\ IsHeaderLine(line'[1]))
       /\ (LineRead /\ Branch(current_element, line'[1]) = "embedded_header") => in_embedded'
       /\ (LineRead /\ RodRecorded(line'[1]) /\ in_embedded) =>
            \A key \in {KeyOf(current_element, line'[1])} :
                /\ in_embedded'
                /\ RowFor(rows', key).in_zd = RowFor(rows, key).in_zd + QtyIn(line'[1])
                /\ \A k \in KeySet(rows') : RowFor(rows', k).direct = RowFor(rows, k).direct
    ]_vars

\* an embedded header, then an embedded quantity line, a page boundary and a
\* line of prose, then a rod line: it is recorded as embedded
C20_Witness ==
    /\ pc = "lines"
    /\ page_index = 2
    /\ line_no = 2
    /\ nlines = 5
    /\ line = <<LnRodA>>
    /\ in_embedded
    /\ embedded_qty = 4
    /\ Len(rows) = 1
    /\ rows[1].in_zd = 5 /\ rows[1].direct = 0 /\ rows[1].zd = 4

\* C18: once extract_object_counts has returned the map, no step changes it:
\* the scan and the projection, its lookups of codes the map does not hold
\* included, add no key and change no value.
C18_CountsReadOnly ==
    [][CountsReturned =>
        /\ object_counts' = object_counts
        /\ DOMAIN object_counts'[1] = DOMAIN object_counts[1]
    ]_vars

\* digitize has returned a row for an element that the map, which is not
\* empty, does not hold
C18_Witness ==
    /\ pc = "done"
    /\ DOMAIN object_counts[1] = {"Km-1", "Bm-2"}
    /\ \E i \in 1..Len(Returned) : Returned[i].Element = "km-1"

\* C19: the loop passes over page 0 without running the loop body on any of
\* its lines: whatever page 0 holds, the scan comes to the first body page
\* with no element set, the flag down, the embedded count 0 and the table
\* empty, a rod line read before any header of the body is not recorded, and
\* a document whose body gave no line returns no row.
C19_SummaryPageSkipped ==
    /\ [][pc = "page0" => (UNCHANGED <<Scan, line, line_no, nlines>> /\ pc' = "pages")]_vars
    /\ [](/\ (pc \in {"page0", "pages", "lines"} /\ nlines = 0) =>
                 Scan = <<"None", 0, FALSE, <<>>>>
          /\ (pc = "done" /\ nlines = 0) => Returned = <<>>)

\* page 0 holds a header, an embedded header and a rod line; the rod line that
\* the first body page starts with finds no element set and is not recorded
C19_Witness ==
    /\ page0 = SummaryText
    /\ pc = "lines"
    /\ page_index = 1
    /\ nlines = 1
    /\ line = <<LnRodA>>
    /\ current_element = "None"
    /\ ~in_embedded
    /\ rows = <<>>

(* A call that runs alone *)

\* the scan of the body pages of a document, one page after the other
RECURSIVE ScanPages(_, _)
ScanPages(st, pages) ==
    IF pages = <<>> THEN st
    ELSE ScanPages(IF NotText(Head(pages)) THEN AtPageStart(st)
                   ELSE ScanLines(AtPageStart(st), Head(pages).lines),
                   Tail(pages))

\* the rows process_pdf gets for the document with summary page p0 when no
\* other call runs
AloneRows(p0) ==
    ResultRows(ScanPages(AfterSummaryPage(InitialState, p0), Body(p0)).rows,
               ObjectCounts(p0))

\* C12: when two calls work on two documents, their steps interleaved in any
\* way, a step of the one leaves the locals of the other as they are, a switch
\* hands each call the locals it left, and each call returns the rows it
\* returns for its document when it runs alone.
C12_CallsIsolated ==
    /\ [][IF page0' # page0
          THEN suspended' = Frame /\ Frame' = suspended
          ELSE suspended' = suspended]_vars
    /\ [](/\ pc = "done" => Returned = AloneRows(page0)
          /\ suspended.pc = "done" => suspended.result_rows[1] = AloneRows(suspended.page0))

\* the first call has returned its row (175 rods: 5 direct, 5 in each of 4
\* embedded items, 7 objects) while the second, begun before, is in the middle
\* of its scan with a record of its own
C12_Witness ==
    /\ pc = "done"
    /\ page0 = SummaryText
    /\ Len(Returned) = 1
    /\ Returned[1].ObshcheeKolichestvo = 175
    /\ suspended.pc = "lines"
    /\ suspended.page0 = SummaryOther
    /\ Len(suspended.rows) = 1
    /\ suspended.rows[1].direct = 3

====
